---------------------------- MODULE Spec2Model ----------------------------
(***************************************************************************)
(* Night Writer: the rate-limit-aware session runner of                    *)
(* src/terminal_automation.py (TerminalAutomationSystem.run_session /      *)
(* run_continuous, TaskExecutor.execute_task, Scheduler, InactivityMonitor,*)
(* RateLimitParser, TerminalManager).                                      *)
(*                                                                         *)
(* Time.  The scheduler clock `now` counts whole minutes since midnight of *)
(* day 0.  Inside execute_task the polling loop is sampled once every      *)
(* SecondsPerTick seconds; elapsed times are kept in seconds so that the   *)
(* thresholds of the code (60 s, 3600 s, inactivity_timeout) are compared  *)
(* as written.                                                             *)
(*                                                                         *)
(* Text.  A line of terminal text is abstracted to what the code looks for *)
(* in it: an activity keyword, a "limit reached ... resets <token>"        *)
(* notice, the same notice without a time token, or anything else.         *)
(***************************************************************************)
EXTENDS Integers, Sequences, FiniteSets, TLC

\* ------------------------------------------------------------ bounds
NumTasks == 2
MaxQueue == 1
MaxDay == 1
MaxSessions == 2
MaxShortTicks == 3
SecondsPerTick == 30
\* Ticks a monitor on its own is followed for, and resets counted on it.
MaxMonitorTicks == 8
MaxResets == 2
\* Lines of a text sample handed to the parser on its own.
MaxTextLines == 3
\* Executions recorded in the session-limit specification.
MaxExecuted == 2

\* ------------------------------------------------- program constants
MaxTaskSeconds == 3600
RateLimitCheckSeconds == 60
PreflightHour == 4
ConfigStartMinutes == 240
MinutesPerDay == 1440
SessionDurationHours == 5

None == "none"

\* ------------------------------------------------------------ text
\* Reset-time tokens as the parser returns them.
Tok2pm == [hour |-> 2, minute |-> 0, ampm |-> "pm"]
Tok4am == [hour |-> 4, minute |-> 0, ampm |-> "am"]
\* No token (Python None where a token is expected).
NoToken == [hour |-> 0, minute |-> 0, ampm |-> ""]
\* No time (Python None where a datetime is expected).
NoTime == 0 - 1
\* No task (Python None where a Task is expected).
NoTask == 0 - 1

Lines == {"noise", "working", "limit_2pm", "limit_notoken"}
\* What a capture of the screen or of the transcript tail can hold.  In
\* "old_limit_2pm" the notice is followed by more than five later lines.
ScreenTexts == {"", "prompt", "limit_2pm", "limit_notoken", "old_limit_2pm"}

\* lines[-5:] of a captured text, joined again.
RecentLines(text) == IF text = "old_limit_2pm" THEN "prompt" ELSE text

\* RateLimitParser.rate_limit_patterns: does the text hold a
\* "limit reached ... resets" phrase.
MatchesRateLimit(text) ==
    text \in {"limit_2pm", "limit_notoken", "old_limit_2pm"}

\* RateLimitParser._extract_reset_time: the time token after "resets".
ExtractResetTime(text) ==
    IF text \in {"limit_2pm", "old_limit_2pm"} THEN Tok2pm ELSE NoToken

\* RateLimitParser.parse_output over a text made of the given lines.
ParseOutput(lines) ==
    LET hit == {l \in lines : MatchesRateLimit(l)}
        tok == {ExtractResetTime(l) : l \in hit} \ {NoToken}
    IN  [rate_limit_detected |-> hit # {},
         reset_time |-> IF hit # {} /\ tok # {} THEN CHOOSE t \in tok : TRUE
                        ELSE NoToken]

\* The activity keywords ("thinking", "working", ...) of execute_task.
HasWorkingIndicator(lines) == "working" \in lines


\* ------------------------------------------------------------ state
VARIABLES
    pc,             \* position of the control thread
    session_result, \* what the last run_session returned
    sessions,       \* run_session calls made so far
    config,         \* Configuration: connection_mode, inactivity_timeout,
                    \*   start_time (minutes of the day), max_tasks_per_session
    tasks,          \* TerminalAutomationSystem.tasks: status and error
    task_index,     \* run_session's task_index
    ex,             \* TaskExecutor: rate_limit_detected, detected_reset_time,
                    \*   current_task
    mon,            \* InactivityMonitor: is_active, idle (seconds since
                    \*   last_activity, capped at the timeout)
    sch,            \* Scheduler: session_start_time, tasks_executed,
                    \*   detected_reset_time, rate_limit_detected
    tm,             \* TerminalManager: _running, _is_existing_window,
                    \*   selected_window, its window still active, process alive
    output_queue,   \* TerminalManager.output_queue
    now,            \* wall clock, minutes since midnight of day 0
    loc,            \* locals of the running execute_task call
    wait,           \* the Scheduler wait in progress: target, mode, caller
    hist            \* history of the current session (observation only)

vars == <<pc, session_result, sessions, config, tasks, task_index, ex, mon,
          sch, tm, output_queue, now, loc, wait, hist>>

TaskIds == 0 .. (NumTasks - 1)
Terminal == {"completed", "failed", "timeout"}
ConnectionModes == {"existing_window", "auto_detect", "new_window"}
InactivityTimeouts == {30, 90}
InitTimes == {120, 300}
\* Configured max_tasks_per_session: small enough for a queue to pass it.
TaskLimits == {1}

Min(a, b) == IF a < b THEN a ELSE b
SetOf(q) == {q[i] : i \in 1 .. Len(q)}

NoLoc == [claude_started |-> FALSE, elapsed |-> 0, since_check |-> 0,
          notice_on_screen |-> FALSE, notice_recent |-> FALSE]
NoWait == [target |-> 0, mode |-> None, ret |-> None]
\* Nothing observed yet: no send at any index, no save, no pre-flight, no
\* save that has just failed.  end_time is the end_time of the task at
\* `at`: not set, set by an earlier attempt (before the present start_time),
\* or set by the present attempt.  stale tells that the output queue still
\* holds lines that were in it when the present attempt sent its task.
NoHist == [at |-> NoTask, sends |-> 0, rls |-> 0,
           saves |-> [i \in TaskIds |-> 0],
           pre |-> None, pre_hour |-> NoTime, prewait |-> None,
           lost |-> FALSE, end_time |-> None, stale |-> FALSE]

\* ------------------------------------------------------ InactivityMonitor
UpdateActivity(m) == [is_active |-> TRUE, idle |-> 0]

\* (variant: the armed flag is not looked at)
IsInactive_Unarmed(m) == m.idle >= config.inactivity_timeout

\* (variant: inactive only past the threshold)
IsInactive_Strict(m) == m.is_active /\ m.idle > config.inactivity_timeout

IsInactive(m) == m.is_active /\ m.idle >= config.inactivity_timeout

\* (variant: reset flips the armed flag)
MonitorReset_Toggle(m) == [is_active |-> ~m.is_active, idle |-> 0]

MonitorReset(m) == [is_active |-> FALSE, idle |-> 0]

\* Seconds going by: time.time() - last_activity grows (kept up to the timeout).
MonitorAge(m, seconds) ==
    [m EXCEPT !.idle = Min(@ + seconds, config.inactivity_timeout)]

\* ------------------------------------------------------------ Scheduler
\* The 24-hour reading of a token, in minutes of the day; -1 when the token
\* names no am/pm (it is not parsed) or datetime.replace rejects it.
TokenMinutes(tok) ==
    LET hh == IF tok.ampm = "pm" /\ tok.hour # 12 THEN tok.hour + 12
              ELSE IF tok.ampm = "am" /\ tok.hour = 12 THEN 0
              ELSE tok.hour
    IN  IF tok.ampm \in {"am", "pm"} /\ hh \in 0 .. 23 /\ tok.minute \in 0 .. 59
        THEN hh * 60 + tok.minute ELSE -1

\* (variant: a reset time equal to now is taken as still ahead)
NextWindowStart_SameMinute(s, t) ==
    LET midnight == (t \div MinutesPerDay) * MinutesPerDay
        today_start == midnight + config.start_time
        tokmin == IF s.detected_reset_time = NoToken THEN -1
                  ELSE TokenMinutes(s.detected_reset_time)
        reset_time == midnight + tokmin
    IN  IF tokmin >= 0
        THEN IF reset_time < t THEN reset_time + MinutesPerDay ELSE reset_time
        ELSE IF t < today_start THEN today_start
             ELSE today_start + MinutesPerDay

\* (variant: the window is always put on the following day)
NextWindowStart_AlwaysTomorrow(s, t) ==
    LET midnight == (t \div MinutesPerDay) * MinutesPerDay
        today_start == midnight + config.start_time
        tokmin == IF s.detected_reset_time = NoToken THEN -1
                  ELSE TokenMinutes(s.detected_reset_time)
        reset_time == midnight + tokmin
    IN  IF tokmin >= 0
        THEN reset_time + MinutesPerDay
        ELSE today_start + MinutesPerDay

NextWindowStart(s, t) ==
    LET midnight == (t \div MinutesPerDay) * MinutesPerDay
        today_start == midnight + config.start_time
        tokmin == IF s.detected_reset_time = NoToken THEN -1
                  ELSE TokenMinutes(s.detected_reset_time)
        reset_time == midnight + tokmin
    IN  IF tokmin >= 0
        THEN IF reset_time <= t THEN reset_time + MinutesPerDay ELSE reset_time
        ELSE IF t < today_start THEN today_start
             ELSE today_start + MinutesPerDay

\* A variant that ends the session at the very second the duration is
\* reached.
IsWithinSessionLimit_AtDuration(s, t) ==
    IF s.session_start_time = NoTime THEN FALSE
    ELSE IF (t - s.session_start_time) * 60 >= SessionDurationHours * 3600
    THEN FALSE
    ELSE IF s.tasks_executed >= config.max_tasks_per_session THEN FALSE
    ELSE TRUE

\* is_within_session_limit: false before a session has started, after the
\* session duration, and once the task limit is reached.
IsWithinSessionLimit(s, t) ==
    IF s.session_start_time = NoTime THEN FALSE
    ELSE IF (t - s.session_start_time) * 60 > SessionDurationHours * 3600
    THEN FALSE
    ELSE IF s.tasks_executed >= config.max_tasks_per_session THEN FALSE
    ELSE TRUE

\* A variant that counts an execution twice.
RecordTaskExecution_Twice(s) == [s EXCEPT !.tasks_executed = @ + 2]

RecordTaskExecution(s) == [s EXCEPT !.tasks_executed = @ + 1]

\* A variant that also counts the limited attempt as an execution.
UpdateRateLimitInfo_Counting(s, detected, reset_time) ==
    [s EXCEPT !.rate_limit_detected = detected,
              !.detected_reset_time = IF reset_time # NoToken THEN reset_time ELSE @,
              !.tasks_executed = @ + 1]

UpdateRateLimitInfo(s, detected, reset_time) ==
    [s EXCEPT !.rate_limit_detected = detected,
              !.detected_reset_time = IF reset_time # NoToken THEN reset_time ELSE @]

\* wait_until_reset up to its polling loop: which loop it enters and for when.
WaitUntilReset(s, t, ret) ==
    [target |-> NextWindowStart(s, t),
     mode |-> IF ~s.rate_limit_detected \/ s.detected_reset_time = NoToken
              THEN "window" ELSE "reset",
     ret |-> ret]

\* What the polling loops do once now >= target.
WaitDone(s, t, mode) ==
    IF mode = "reset"
    THEN [session_start_time |-> t, tasks_executed |-> 0,
          detected_reset_time |-> NoToken, rate_limit_detected |-> FALSE]
    ELSE [s EXCEPT !.session_start_time = t, !.tasks_executed = 0]

\* ------------------------------------------------------- TerminalManager
IsRunning(t) ==
    IF t.existing THEN t.running /\ t.selected = "win" /\ t.window_active
    ELSE t.running /\ t.process_alive

\* ensure_window_ready: the pairs <<result, manager afterwards>>; the user may
\* pick no window, a live one, or one that is gone at the double check.
EnsureWindowReady(t) ==
    IF ~t.existing THEN {<<TRUE, t>>}
    ELSE IF t.selected = "win" /\ t.window_active THEN {<<TRUE, t>>}
    ELSE {<<FALSE, [t EXCEPT !.selected = "none", !.window_active = FALSE]>>,
          <<TRUE, [t EXCEPT !.selected = "win", !.window_active = TRUE]>>,
          <<FALSE, [t EXCEPT !.selected = "win", !.window_active = FALSE]>>}

\* send_command: may succeed only on a usable channel.
SendCanSucceed(t) ==
    IF t.existing THEN t.selected = "win" /\ t.window_active
    ELSE t.process_alive

StopTerminal(t) ==
    [t EXCEPT !.running = FALSE, !.process_alive = FALSE,
              !.window_active = IF t.existing THEN @ ELSE FALSE]

\* start_terminal: the managers it can leave behind, with its result.
ConnectExisting(t) ==
    IF t.selected = "win"
    THEN {<<TRUE, [t EXCEPT !.existing = TRUE, !.running = TRUE]>>}
    ELSE {<<TRUE, [t EXCEPT !.selected = "win", !.window_active = TRUE,
                            !.existing = TRUE, !.running = TRUE]>>,
          <<FALSE, t>>}

\* _create_new_terminal: the process starts and its window is looked up by
\* pid (found: it becomes the selected window; not found: the selection stays
\* as it was), or the start fails.
CreateNewTerminal(t) ==
    {<<TRUE, [t EXCEPT !.process_alive = TRUE, !.selected = "win",
                       !.window_active = TRUE, !.existing = FALSE,
                       !.running = TRUE]>>,
     <<TRUE, [t EXCEPT !.process_alive = TRUE, !.existing = FALSE,
                       !.running = TRUE]>>,
     <<FALSE, t>>}

StartTerminal(t) ==
    IF config.connection_mode = "existing_window" THEN ConnectExisting(t)
    ELSE IF config.connection_mode = "auto_detect"
    THEN {r \in ConnectExisting(t) : r[1]}
         \cup UNION {CreateNewTerminal(r[2]) : r \in {x \in ConnectExisting(t) : ~x[1]}}
    ELSE CreateNewTerminal(t)


\* ---------------------------------------------------------------- Init
Init ==
    /\ pc = "idle"
    /\ session_result = None
    /\ sessions = 0
    /\ config \in [connection_mode : ConnectionModes,
                   inactivity_timeout : InactivityTimeouts,
                   start_time : {ConfigStartMinutes},
                   max_tasks_per_session : TaskLimits]
    /\ tasks = [i \in TaskIds |-> [status |-> "pending", error |-> ""]]
    /\ task_index = 0
    /\ ex = [rate_limit_detected |-> FALSE, detected_reset_time |-> NoToken,
             current_task |-> NoTask]
    /\ mon = [is_active |-> FALSE, idle |-> 0]
    /\ sch = [session_start_time |-> NoTime, tasks_executed |-> 0,
              detected_reset_time |-> NoToken, rate_limit_detected |-> FALSE]
    /\ tm = [running |-> FALSE, existing |-> FALSE, selected |-> "none",
             window_active |-> FALSE, process_alive |-> FALSE]
    /\ output_queue = <<>>
    /\ now \in InitTimes
    /\ loc = NoLoc
    /\ wait = NoWait
    /\ hist = NoHist

\* run_session's return: the finally clause stops the terminal.
Return(value, t) ==
    /\ pc' = "done"
    /\ session_result' = value
    /\ tm' = StopTerminal(t)
    /\ loc' = NoLoc
    /\ wait' = NoWait
    /\ hist' = NoHist

\* ------------------------------------------------- run_session: start
\* start_terminal at the top of run_session.
StartSession ==
    /\ pc = "idle"
    /\ sessions' = sessions + 1
    /\ hist' = NoHist
    /\ \E r \in StartTerminal(tm) :
          IF r[1]
          THEN /\ tm' = r[2]
               /\ pc' = "preflight"
               /\ session_result' = None
               /\ UNCHANGED <<loc, wait>>
          ELSE Return("False", r[2])
    /\ UNCHANGED <<config, tasks, task_index, ex, mon, sch, output_queue, now>>

\* A variant that assumes a limit whenever nothing could be captured.
PreflightDecision_EmptyWaits(content, t) ==
    IF content # ""
    THEN LET info == ParseOutput({RecentLines(content)})
         IN  IF info.rate_limit_detected /\ info.reset_time # NoToken
             THEN <<TRUE, TRUE, info.reset_time>>
             ELSE <<FALSE, info.rate_limit_detected, NoToken>>
    ELSE <<TRUE, TRUE, Tok4am>>

\* What _check_and_wait_for_rate_limits decides from the captured content:
\* <<wait?, detected, token handed to the Scheduler>>.
PreflightDecision(content, t) ==
    IF content # ""
    THEN LET info == ParseOutput({RecentLines(content)})
         IN  IF info.rate_limit_detected /\ info.reset_time # NoToken
             THEN <<TRUE, TRUE, info.reset_time>>
             ELSE <<FALSE, info.rate_limit_detected, NoToken>>
    ELSE IF (t % MinutesPerDay) \div 60 < PreflightHour
         THEN <<TRUE, TRUE, Tok4am>>
         ELSE <<FALSE, FALSE, NoToken>>

\* _check_and_wait_for_rate_limits, called once before the task loop.
PreFlight ==
    /\ pc = "preflight"
    /\ \E content \in ScreenTexts :
          LET d == PreflightDecision(content, now)
              s == UpdateRateLimitInfo(sch, TRUE, d[3])
          IN  /\ hist' = [hist EXCEPT
                    !.pre = content,
                    !.pre_hour = (now % MinutesPerDay) \div 60,
                    !.prewait = IF d[1] THEN "waiting" ELSE "no"]
              /\ IF d[1]
                 THEN /\ sch' = s
                      /\ wait' = WaitUntilReset(s, now, "validate")
                      /\ pc' = "wait"
                 ELSE /\ pc' = "validate"
                      /\ UNCHANGED <<sch, wait>>
    /\ UNCHANGED <<session_result, sessions, config, tasks, task_index, ex,
                   mon, tm, output_queue, now, loc>>

\* ------------------------------------------------------ Scheduler waits
\* The sleep(60) polls of wait_until_window / wait_until_reset, taken together.
WaitSleep ==
    /\ pc = "wait"
    /\ now < wait.target
    /\ wait.target \div MinutesPerDay <= MaxDay
    /\ now' = wait.target
    /\ mon' = MonitorAge(mon, (wait.target - now) * 60)
    /\ UNCHANGED <<pc, session_result, sessions, config, tasks, task_index,
                   ex, sch, tm, output_queue, loc, wait, hist>>

\* The poll that finds now >= target, and what the caller does next.
WaitReturn ==
    /\ pc = "wait"
    /\ now >= wait.target
    /\ sch' = WaitDone(sch, now, wait.mode)
    /\ wait' = NoWait
    /\ loc' = NoLoc
    /\ IF wait.ret = "validate"
       THEN /\ pc' = "validate"
            /\ hist' = [hist EXCEPT !.prewait = "done"]
            /\ UNCHANGED <<ex, tm>>
       ELSE /\ pc' = "loop"
            /\ ex' = IF wait.ret = "after_task"
                     THEN [ex EXCEPT !.rate_limit_detected = FALSE,
                                     !.detected_reset_time = NoToken]
                     ELSE ex
            /\ \E r \in EnsureWindowReady(tm) : tm' = r[2]
            /\ UNCHANGED hist
    /\ UNCHANGED <<session_result, sessions, config, tasks, task_index, mon,
                   output_queue, now>>

\* Re-validation after the pre-flight, then the session state is initialised.
Validate ==
    /\ pc = "validate"
    /\ \E r \in EnsureWindowReady(tm) :
          IF r[1]
          THEN /\ tm' = r[2]
               /\ sch' = [sch EXCEPT !.session_start_time = now,
                                     !.tasks_executed = 0]
               /\ task_index' = 0
               /\ pc' = "loop"
               /\ UNCHANGED <<session_result, loc, wait, hist>>
          ELSE /\ Return("False", r[2])
               /\ UNCHANGED <<sch, task_index>>
    /\ UNCHANGED <<sessions, config, tasks, ex, mon, output_queue, now>>


\* ---------------------------------------------------- run_session: loop
\* Variants of the loop condition: one that also asks the Scheduler whether
\* the session is within its limits, one that leaves the last task out.
LoopContinues_WithinLimit(index, s, t) ==
    index < NumTasks /\ IsWithinSessionLimit(s, t)

LoopContinues_StopsEarly(index, s, t) == index < NumTasks - 1

\* The while condition of run_session: the Scheduler and the clock are not
\* consulted.
LoopContinues(index, s, t) == index < NumTasks

\* The while condition fails: the session completed.
SessionComplete ==
    /\ pc = "loop"
    /\ ~LoopContinues(task_index, sch, now)
    /\ Return("True", tm)
    /\ UNCHANGED <<sessions, config, tasks, task_index, ex, mon, sch,
                   output_queue, now>>

\* (variant: a task whose window is missing is passed over)
AfterNotReady_SkipsTask(index) == index + 1

\* The index the loop goes on with after a failed validation: `continue`.
AfterNotReady(index) == index

\* ensure_window_ready fails at the top of the loop: continue, same index.
WindowNotReady ==
    /\ pc = "loop"
    /\ LoopContinues(task_index, sch, now)
    /\ \E r \in EnsureWindowReady(tm) : ~r[1] /\ tm' = r[2]
    /\ task_index' = AfterNotReady(task_index)
    /\ UNCHANGED <<pc, session_result, sessions, config, tasks,
                   ex, mon, sch, output_queue, now, loc, wait, hist>>

\* A variant that goes on to monitor a task whose send failed.
AfterSend_Monitors(sent) ==
    [pc |-> "exec", status |-> "running", error |-> ""]

\* execute_task after send_command: the monitoring loop is entered only when
\* the send succeeded; otherwise the task is Failed and returned at once.
AfterSend(sent) ==
    IF sent THEN [pc |-> "exec", status |-> "running", error |-> ""]
    ELSE [pc |-> "handle", status |-> "failed", error |-> "send"]

\* The window is ready: execute_task is entered and sends the task.
BeginTask ==
    /\ pc = "loop"
    /\ LoopContinues(task_index, sch, now)
    /\ \E r \in EnsureWindowReady(tm) :
          /\ r[1]
          /\ tm' = r[2]
          /\ ex' = [ex EXCEPT !.current_task = task_index]
          /\ hist' = [hist EXCEPT
                          !.at = task_index,
                          !.sends = IF hist.at = task_index THEN @ + 1 ELSE 1,
                          !.rls = IF hist.at = task_index THEN @ ELSE 0,
                          !.pre = None, !.pre_hour = NoTime, !.prewait = None,
                          !.end_time = IF hist.at = task_index /\ @ # None
                                       THEN "before_start" ELSE None,
                          !.stale = output_queue # <<>>]
          /\ \E sent \in {s \in BOOLEAN : s => SendCanSucceed(r[2])} :
                LET after == AfterSend(sent)
                IN  /\ tasks' = [tasks EXCEPT ![task_index] =
                                    [status |-> after.status,
                                     error |-> after.error]]
                    /\ loc' = NoLoc
                    /\ pc' = after.pc
    /\ UNCHANGED <<session_result, sessions, config, task_index, mon, sch,
                   output_queue, now, wait>>

\* -------------------------------------------------------- execute_task
\* A variant that reads the pending output before asking whether the channel
\* is alive.
TickVerdict_OutputFirst(alive, rl_stream, rl_side, inactive, over) ==
    IF rl_stream THEN "rate_limited"
    ELSE IF ~alive THEN "failed"
    ELSE IF rl_side THEN "rate_limited"
    ELSE IF inactive THEN "completed"
    ELSE IF over THEN "timeout"
    ELSE "continue"

\* A variant that looks for a limit only in the side-channel sample.
TickVerdict_SideOnly(alive, rl_stream, rl_side, inactive, over) ==
    IF ~alive THEN "failed"
    ELSE IF rl_side THEN "rate_limited"
    ELSE IF inactive THEN "completed"
    ELSE IF over THEN "timeout"
    ELSE "continue"

\* A variant without the hard cap on the time of one attempt.
TickVerdict_NoCap(alive, rl_stream, rl_side, inactive, over) ==
    IF ~alive THEN "failed"
    ELSE IF rl_stream THEN "rate_limited"
    ELSE IF rl_side THEN "rate_limited"
    ELSE IF inactive THEN "completed"
    ELSE "continue"

\* The order in which one iteration of the monitoring loop reaches a verdict.
TickVerdict(alive, rl_stream, rl_side, inactive, over) ==
    IF ~alive THEN "failed"
    ELSE IF rl_stream THEN "rate_limited"
    ELSE IF rl_side THEN "rate_limited"
    ELSE IF inactive THEN "completed"
    ELSE IF over THEN "timeout"
    ELSE "continue"

\* (variant: silence counts whether or not Claude has started)
InactivityVerdict_Ungated(started, m) == IsInactive(m)

\* The inactivity check that ends an attempt as Completed: only once Claude
\* has started in this attempt.
InactivityVerdict(started, m) == started /\ IsInactive(m)

\* Is the side-channel sample due on this iteration.
SideCheckDue(existing, started, inactive, since_check) ==
    existing /\ started /\ inactive /\ since_check > RateLimitCheckSeconds

\* How long one iteration takes: the sleep and whatever the captures cost.
\* Short iterations are followed for MaxShortTicks of them; an iteration may
\* also take long enough to pass the hard cap.
TickSteps(elapsed) ==
    {MaxTaskSeconds}
    \cup (IF elapsed < MaxShortTicks * SecondsPerTick
          THEN {SecondsPerTick} ELSE {})

\* The lines gathered so far in the attempt, as far as the code tells them
\* apart: the activity keyword is among them exactly once Claude has started
\* (a notice among them ends the attempt on the spot).
Gathered(l) == IF l.claude_started THEN {"working"} ELSE {}

\* get_errors: a line can be there only while a stderr reader thread feeds
\* the queue, which is the case for a process this manager started.
ErrorsSeen(t) == IF ~t.existing /\ t.process_alive THEN BOOLEAN ELSE {FALSE}

\* _check_rate_limit_during_task: the screen is copied only for an existing
\* window; for a started process nothing is sampled.
ScreenSeen(t) == IF t.existing THEN ScreenTexts ELSE {""}

\* One iteration of the while loop of execute_task.
ExecTick ==
    /\ pc = "exec"
    /\ \E new_errors \in ErrorsSeen(tm), snapshot \in ScreenSeen(tm),
          dt \in TickSteps(loc.elapsed) :
       LET alive == IsRunning(tm)
           new_output == SetOf(output_queue)
           lines == Gathered(loc) \cup new_output
           started == loc.claude_started
                      \/ (new_output # {} /\ HasWorkingIndicator(lines))
           mon1 == IF started /\ ~loc.claude_started
                   THEN MonitorReset(mon) ELSE mon
           info == ParseOutput(lines)
           rl_stream == new_output # {} /\ info.rate_limit_detected
           mon2 == IF new_output # {} /\ started
                   THEN UpdateActivity(mon1) ELSE mon1
           mon3 == IF new_errors /\ started THEN UpdateActivity(mon2) ELSE mon2
           due == SideCheckDue(tm.existing, started, IsInactive(mon3),
                               loc.since_check)
           side == ParseOutput({RecentLines(snapshot)})
           rl_side == due /\ snapshot # "" /\ side.rate_limit_detected
           inactive == InactivityVerdict(started, mon3)
           over == loc.elapsed > MaxTaskSeconds
           verdict == TickVerdict(alive, rl_stream, rl_side, inactive, over)
       IN  /\ output_queue' = IF alive THEN <<>> ELSE output_queue
           /\ mon' = IF ~alive THEN mon
                     ELSE IF rl_stream THEN mon1
                     ELSE IF verdict = "continue"
                     THEN MonitorAge(mon3, dt) ELSE mon3
           /\ ex' = IF verdict = "rate_limited"
                    THEN [rate_limit_detected |-> TRUE,
                          detected_reset_time |->
                              IF rl_stream THEN info.reset_time
                              ELSE side.reset_time,
                          current_task |-> NoTask]
                    ELSE IF verdict = "continue" THEN ex
                    ELSE [ex EXCEPT !.current_task = NoTask]
           /\ IF verdict = "continue"
              THEN /\ loc' = [claude_started |-> started,
                              elapsed |-> Min(loc.elapsed + dt, MaxTaskSeconds + 1),
                              since_check |->
                                  IF due THEN Min(dt, RateLimitCheckSeconds + 1)
                                  ELSE Min(loc.since_check + dt,
                                           RateLimitCheckSeconds + 1),
                              notice_on_screen |-> FALSE,
                              notice_recent |-> FALSE]
                   /\ hist' = [hist EXCEPT !.stale = ~alive /\ @]
                   /\ UNCHANGED <<pc, tasks>>
              ELSE /\ hist' = [hist EXCEPT !.end_time = "after_start",
                                           !.stale = ~alive /\ @]
                   /\ loc' = [loc EXCEPT
                          !.claude_started = IF alive THEN started ELSE @,
                          !.notice_on_screen =
                              alive /\ tm.existing
                              /\ MatchesRateLimit(RecentLines(snapshot))]
                   /\ tasks' = [tasks EXCEPT ![task_index] =
                          [status |-> verdict,
                           error |-> IF verdict = "failed" THEN "terminated"
                                     ELSE IF verdict = "timeout" THEN "timeout"
                                     ELSE ""]]
                   /\ pc' = "handle"
    /\ UNCHANGED <<session_result, sessions, config, task_index, sch, tm,
                   now, wait>>

\* ----------------------------------------- run_session: after execute_task
\* Variants of the branch taken on the returned task: one that moves on after
\* a limited attempt, one that saves every terminal result, one that keeps a
\* failed task at its index.
ResultBranch_LimitAdvances(rl_flag, status) ==
    IF rl_flag THEN "advance"
    ELSE IF status = "completed" THEN "save_advance"
    ELSE IF status = "rate_limited" THEN "retry"
    ELSE "advance"

ResultBranch_SavesAll(rl_flag, status) ==
    IF rl_flag THEN "wait_retry"
    ELSE IF status = "rate_limited" THEN "retry"
    ELSE "save_advance"

ResultBranch_FailedRetries(rl_flag, status) ==
    IF rl_flag THEN "wait_retry"
    ELSE IF status = "completed" THEN "save_advance"
    ELSE IF status \in {"rate_limited", "failed"} THEN "retry"
    ELSE "advance"

\* Which branch run_session takes on the returned task.
ResultBranch(rl_flag, status) ==
    IF rl_flag THEN "wait_retry"
    ELSE IF status = "completed" THEN "save_advance"
    ELSE IF status = "rate_limited" THEN "retry"
    ELSE "advance"

\* Where the loop goes after the index has moved on.
AfterAdvance(index) == IF index < NumTasks THEN "delay" ELSE "loop"

\* What save_task_output hands back when the files cannot be written.
Raised == "raised"

\* (variant: the failure of a write is not caught)
SaveTaskOutput_Raises(ok) == IF ok THEN "path" ELSE Raised

\* save_task_output: the path written to, or "" from its except clause.
SaveTaskOutput(ok) == IF ok THEN "path" ELSE ""

HandleResult ==
    /\ pc = "handle"
    /\ loc' = NoLoc
    /\ LET branch == ResultBranch(ex.rate_limit_detected,
                                  tasks[task_index].status)
           rl == tasks[task_index].status = "rate_limited"
       IN  CASE branch = "wait_retry" ->
                  LET s == UpdateRateLimitInfo(sch, ex.rate_limit_detected,
                                               ex.detected_reset_time)
                  IN  /\ sch' = s
                      /\ wait' = WaitUntilReset(s, now, "after_task")
                      /\ pc' = "wait"
                      /\ hist' = [hist EXCEPT !.rls = IF rl THEN @ + 1 ELSE @]
                      /\ UNCHANGED <<task_index, mon, session_result, tm>>
            [] branch = "save_advance" ->
                  \E ok \in BOOLEAN :
                     LET output_path == SaveTaskOutput(ok)
                     IN  IF output_path = Raised
                         THEN \* an exception out of the call ends run_session
                              /\ pc' = "done"
                              /\ session_result' = "False"
                              /\ tm' = StopTerminal(tm)
                              /\ wait' = NoWait
                              /\ hist' = [NoHist EXCEPT !.lost = TRUE]
                              /\ UNCHANGED <<task_index, mon, sch>>
                         ELSE /\ hist' = [hist EXCEPT
                                            !.saves[task_index] = @ + 1,
                                            !.lost = (output_path = "")]
                              /\ sch' = RecordTaskExecution(sch)
                              /\ mon' = MonitorReset(mon)
                              /\ task_index' = task_index + 1
                              /\ pc' = AfterAdvance(task_index + 1)
                              /\ UNCHANGED <<wait, session_result, tm>>
            [] branch = "retry" ->
                  /\ pc' = "loop"
                  /\ hist' = [hist EXCEPT !.rls = @ + 1]
                  /\ UNCHANGED <<sch, wait, task_index, mon, session_result,
                                 tm>>
            [] branch = "advance" ->
                  /\ task_index' = task_index + 1
                  /\ pc' = AfterAdvance(task_index + 1)
                  /\ UNCHANGED <<sch, wait, mon, hist, session_result, tm>>
    /\ UNCHANGED <<sessions, config, tasks, ex, output_queue, now>>

\* (variant: a sample with nothing in it is taken for a limit)
InterTaskDecision_EmptyWaits(snapshot) ==
    snapshot = "" \/ ParseOutput({snapshot}).rate_limit_detected

\* Does the sample taken during the delay call for a wait.
InterTaskDecision(snapshot) ==
    snapshot # "" /\ ParseOutput({snapshot}).rate_limit_detected

\* The delay between tasks, with its rate-limit poll of a fresh snapshot
\* (loc.notice_on_screen keeps whether the sample held a notice, and
\* loc.notice_recent whether its last five lines did).
InterTaskCheck ==
    /\ pc = "delay"
    /\ \E snapshot \in ScreenTexts :
          LET info == ParseOutput({snapshot})
          IN  IF InterTaskDecision(snapshot)
              THEN LET s == UpdateRateLimitInfo(sch, TRUE, info.reset_time)
                   IN  /\ sch' = s
                       /\ wait' = WaitUntilReset(s, now, "after_delay")
                       /\ pc' = "wait"
                       /\ loc' = [loc EXCEPT
                              !.notice_on_screen = MatchesRateLimit(snapshot),
                              !.notice_recent =
                                  MatchesRateLimit(RecentLines(snapshot))]
              ELSE /\ pc' = "loop"
                   /\ UNCHANGED <<sch, wait, loc>>
    /\ hist' = [hist EXCEPT !.lost = FALSE]
    /\ UNCHANGED <<session_result, sessions, config, tasks, task_index, ex,
                   mon, tm, output_queue, now>>

\* KeyboardInterrupt (or any exception) inside run_session: return False.
Interrupt ==
    /\ pc \in {"preflight", "wait", "validate", "loop", "exec", "handle",
               "delay"}
    /\ Return("False", tm)
    /\ UNCHANGED <<sessions, config, tasks, task_index, ex, mon, sch,
                   output_queue, now>>

\* ---------------------------------------------------------- environment
\* The stdout reader thread of a started process puts a line in the queue.
\* The queue is looked at only by the polls of execute_task, so a line put
\* while the control thread is elsewhere is the same as one put before the
\* first poll.
ReadOutput ==
    /\ pc = "exec"
    /\ tm.running /\ tm.process_alive
    /\ Len(output_queue) < MaxQueue
    /\ \E line \in Lines : output_queue' = Append(output_queue, line)
    /\ UNCHANGED <<pc, session_result, sessions, config, tasks, task_index,
                   ex, mon, sch, tm, now, loc, wait, hist>>

\* The selected window is closed, or the process exits.  The channel is
\* looked at only where the control thread validates, sends or polls.
ChannelDies ==
    /\ pc \in {"validate", "wait", "loop", "exec"}
    /\ \/ /\ tm.existing /\ tm.window_active
          /\ tm' = [tm EXCEPT !.window_active = FALSE]
       \/ /\ ~tm.existing /\ tm.process_alive
          /\ tm' = [tm EXCEPT !.process_alive = FALSE, !.window_active = FALSE]
    /\ UNCHANGED <<pc, session_result, sessions, config, tasks, task_index,
                   ex, mon, sch, output_queue, now, loc, wait, hist>>

\* --------------------------------------------------------- run_continuous
\* run_session has returned; after the sleep the loop calls it again.
NextSession ==
    /\ pc = "done"
    /\ sessions < MaxSessions
    /\ pc' = "idle"
    /\ now' = now + 1
    /\ mon' = MonitorAge(mon, 60)
    /\ UNCHANGED <<session_result, sessions, config, tasks, task_index, ex,
                   sch, tm, output_queue, loc, wait, hist>>

\* KeyboardInterrupt during the sleep of run_continuous: break.
StopContinuous ==
    /\ pc = "done"
    /\ pc' = "stopped"
    /\ UNCHANGED <<session_result, sessions, config, tasks, task_index, ex,
                   mon, sch, tm, output_queue, now, loc, wait, hist>>

\* ------------------------------------------------------- specifications
\* One run_session on a freshly constructed system.
Next ==
    \/ StartSession
    \/ PreFlight
    \/ WaitSleep
    \/ WaitReturn
    \/ Validate
    \/ SessionComplete
    \/ WindowNotReady
    \/ BeginTask
    \/ ExecTick
    \/ HandleResult
    \/ InterTaskCheck
    \/ Interrupt
    \/ ReadOutput
    \/ ChannelDies

Spec == Init /\ [][Next]_vars

\* run_continuous: sessions one after another on the same system.
NextContinuous ==
    \/ Next
    \/ NextSession
    \/ StopContinuous

\* main() runs run_continuous; followed here under the default connection
\* mode, which takes the existing-window and the new-terminal path alike,
\* from a start after the pre-flight hour.
InitContinuous ==
    /\ Init
    /\ config.connection_mode = "auto_detect"
    /\ (now % MinutesPerDay) \div 60 >= PreflightHour

SpecContinuous == InitContinuous /\ [][NextContinuous]_vars

\* run_session on a worker thread of the GUI, with the Stop button.
\* stop_automation, on the GUI thread: terminal_manager.stop_terminal().
StopAutomation ==
    /\ pc \in {"preflight", "wait", "validate", "loop", "exec", "handle",
               "delay"}
    /\ tm.running
    /\ tm' = StopTerminal(tm)
    /\ UNCHANGED <<pc, session_result, sessions, config, tasks, task_index,
                   ex, mon, sch, output_queue, now, loc, wait, hist>>

NextGui ==
    \/ Next
    \/ StopAutomation

SpecGui == Init /\ [][NextGui]_vars

\* The stdout reader thread while the control thread is not in execute_task:
\* in a wait, at the top of the loop, in the delay between tasks.
ReadOutputIdle ==
    /\ pc \in {"wait", "loop", "delay"}
    /\ tm.running /\ tm.process_alive
    /\ Len(output_queue) < MaxQueue
    /\ \E line \in Lines : output_queue' = Append(output_queue, line)
    /\ UNCHANGED <<pc, session_result, sessions, config, tasks, task_index,
                   ex, mon, sch, tm, now, loc, wait, hist>>

NextReader ==
    \/ Next
    \/ ReadOutputIdle

SpecReader == Init /\ [][NextReader]_vars

\* --------------------------------------------------- Scheduler on its own
\* Tokens a Scheduler can be handed: readings of the clock that exist,
\* readings datetime.replace rejects, and one with no am/pm.
Tok12am == [hour |-> 12, minute |-> 0, ampm |-> "am"]
Tok12pm == [hour |-> 12, minute |-> 0, ampm |-> "pm"]
Tok1159pm == [hour |-> 11, minute |-> 59, ampm |-> "pm"]
Tok13am == [hour |-> 13, minute |-> 0, ampm |-> "am"]
Tok13pm == [hour |-> 13, minute |-> 0, ampm |-> "pm"]
Tok475am == [hour |-> 4, minute |-> 75, ampm |-> "am"]
Tok1430 == [hour |-> 14, minute |-> 30, ampm |-> ""]
SchedTokens == {Tok4am, Tok2pm, Tok12am, Tok12pm, Tok1159pm, Tok13am, Tok13pm,
                Tok475am, Tok1430}
\* Configured start times HH:MM, in minutes of the day.
StartTimes == {0, ConfigStartMinutes, 840, MinutesPerDay - 1}
\* The minutes at, just before and just after each target time of day, and
\* 02:00 and 05:00.
DayMarks ==
    {0, 1, 120, 239, 240, 241, 300, 719, 720, 721, 779, 780, 781, 839, 840,
     841, 1438, 1439}
\* Every minute of the first day, and the marked minutes of the later days
\* the clock is followed for.
SchedTimes ==
    (0 .. (MinutesPerDay - 1))
    \cup {d * MinutesPerDay + m : d \in 1 .. MaxDay, m \in DayMarks}

\* night_writer.next_window_start(tz, start_hh_mm): the configured start only.
next_window_start(start_hh_mm, t) ==
    LET today_start == (t \div MinutesPerDay) * MinutesPerDay + start_hh_mm
    IN  IF t < today_start THEN today_start ELSE today_start + MinutesPerDay

\* A Scheduler just constructed, at some minute, for some configured start.
InitScheduler ==
    /\ pc = "sched"
    /\ session_result = None
    /\ sessions = 0
    /\ config \in [connection_mode : {"auto_detect"},
                   inactivity_timeout : {30},
                   start_time : StartTimes,
                   max_tasks_per_session : TaskLimits]
    /\ tasks = [i \in TaskIds |-> [status |-> "pending", error |-> ""]]
    /\ task_index = 0
    /\ ex = [rate_limit_detected |-> FALSE, detected_reset_time |-> NoToken,
             current_task |-> NoTask]
    /\ mon = [is_active |-> FALSE, idle |-> 0]
    /\ sch = [session_start_time |-> NoTime, tasks_executed |-> 0,
              detected_reset_time |-> NoToken, rate_limit_detected |-> FALSE]
    /\ tm = [running |-> FALSE, existing |-> FALSE, selected |-> "none",
             window_active |-> FALSE, process_alive |-> FALSE]
    /\ output_queue = <<>>
    /\ now \in SchedTimes
    /\ loc = NoLoc
    /\ wait = NoWait
    /\ hist = NoHist

\* update_rate_limit_info(detected, token), called as run_session calls it,
\* with the flag and the token the executor holds (the token may be None).
SchedRecord ==
    /\ pc = "sched"
    /\ \E detected \in BOOLEAN, tok \in SchedTokens \cup {NoToken} :
          /\ ex' = [ex EXCEPT !.rate_limit_detected = detected,
                              !.detected_reset_time = tok]
          /\ sch' = UpdateRateLimitInfo(sch, ex'.rate_limit_detected,
                                        ex'.detected_reset_time)
    /\ UNCHANGED <<pc, session_result, sessions, config, tasks, task_index,
                   mon, tm, output_queue, now, loc, wait, hist>>

\* Scheduler.next_window_start() is called; its result is kept in wait.target.
SchedAsk ==
    /\ pc = "sched"
    /\ pc' = "sched_done"
    /\ wait' = [target |-> NextWindowStart(sch, now), mode |-> "window",
                ret |-> None]
    /\ UNCHANGED <<session_result, sessions, config, tasks, task_index,
                   ex, mon, sch, tm, output_queue, now, loc, hist>>

\* night_writer.next_window_start() is called with the configured start.
SchedAskStandalone ==
    /\ pc = "sched"
    /\ pc' = "sched_done"
    /\ wait' = [target |-> next_window_start(config.start_time, now),
                mode |-> "standalone", ret |-> None]
    /\ UNCHANGED <<session_result, sessions, config, tasks, task_index,
                   ex, mon, sch, tm, output_queue, now, loc, hist>>

NextScheduler ==
    \/ SchedRecord
    \/ SchedAsk
    \/ SchedAskStandalone

SpecScheduler == InitScheduler /\ [][NextScheduler]_vars

\* --------------------------------------------- RateLimitParser on its own
\* A time token as a string: its hour digits, whether ":MM" follows and which,
\* whether a blank stands before the am/pm marker, and the marker as written
\* ("" when there is none).
Written(h, c, m, g, a) ==
    [hour |-> h, colon |-> c, minute |-> m, gap |-> g, ampm |-> a]
\* No string (Python None where a str is expected).
NoWritten == Written(0 - 1, FALSE, 0, FALSE, "")

\* str.lower() on a token.
Lower(w) ==
    [w EXCEPT !.ampm = IF @ = "AM" THEN "am" ELSE IF @ = "PM" THEN "pm" ELSE @]

\* A line of text: the clause it opens with ("limit reached", "quota
\* exceeded" or neither), whether it is the "5-hour limit reached ... ∙"
\* form, the words before the token ("resets", "resets at", "available at"
\* or none) and the token that follows them.
TextLine(cl, five, lead, tok) ==
    [clause |-> cl, five |-> five, lead |-> lead, tok |-> tok]

WrittenTokens ==
    {Written(2, FALSE, 0, FALSE, "pm"), Written(12, FALSE, 0, FALSE, "AM"),
     Written(6, TRUE, 30, FALSE, "pm"), Written(12, TRUE, 0, FALSE, "am"),
     Written(6, TRUE, 30, TRUE, "PM"), Written(14, TRUE, 30, FALSE, ""),
     Written(9, TRUE, 15, FALSE, ""), Written(2, FALSE, 0, TRUE, "pm")}

SampleLines ==
    {TextLine("limit reached", five, "resets", tok) :
         five \in BOOLEAN, tok \in WrittenTokens}
    \cup {TextLine("", FALSE, "", NoWritten),
          TextLine("limit reached", FALSE, "", NoWritten),
          TextLine("limit reached", TRUE, "resets", NoWritten),
          TextLine("quota exceeded", FALSE, "resets",
                   Written(4, FALSE, 0, FALSE, "am")),
          TextLine("", FALSE, "resets", Written(3, FALSE, 0, FALSE, "am")),
          TextLine("limit reached", FALSE, "resets at",
                   Written(7, TRUE, 45, FALSE, "pm")),
          TextLine("", FALSE, "available at",
                   Written(8, TRUE, 0, FALSE, ""))}

\* rate_limit_patterns: a "limit reached" or "quota exceeded" clause followed
\* on the same line by "resets" (all five patterns come down to these two).
rate_limit_patterns(line) ==
    /\ line.clause \in {"limit reached", "quota exceeded"}
    /\ line.lead \in {"resets", "resets at"}

\* <digits>am or <digits>pm, written together.
ShortToken(w) == w # NoWritten /\ ~w.colon /\ ~w.gap /\ w.ampm \in {"am", "pm"}
\* <digits>:<digits>, with or without a marker after it.
ColonToken(w) == w # NoWritten /\ w.colon

\* reset_time_patterns, in the order they are tried: does the (lower-cased)
\* line match pattern k. "next reset <H:MM>" is matched by pattern 3 already.
reset_time_patterns(k, line) ==
    LET w == Lower(line.tok)
    IN  CASE k = 1 -> /\ line.five /\ line.clause = "limit reached"
                      /\ line.lead = "resets" /\ ShortToken(w)
          [] k = 2 -> line.lead = "resets" /\ ShortToken(w)
          [] k = 3 -> line.lead = "resets" /\ ColonToken(w)
          [] k = 4 -> line.lead = "resets at" /\ ColonToken(w)
          [] k = 5 -> FALSE
          [] k = 6 -> line.lead = "available at" /\ ColonToken(w)

\* A variant that never rewrites the hour of a time without a marker.
FormatMatch_KeepsHour(w) ==
    IF ~w.colon THEN w
    ELSE IF w.ampm # "" THEN [w EXCEPT !.gap = TRUE]
    ELSE IF w.hour < 12 THEN [w EXCEPT !.gap = TRUE, !.ampm = "am"]
    ELSE [w EXCEPT !.gap = TRUE, !.ampm = "pm"]

\* The string _extract_reset_time builds from a match.
FormatMatch(w) ==
    IF ~w.colon THEN w
    ELSE IF w.ampm # "" THEN [w EXCEPT !.gap = TRUE]
    ELSE IF w.hour < 12 THEN [w EXCEPT !.gap = TRUE, !.ampm = "am"]
    ELSE [w EXCEPT !.gap = TRUE, !.ampm = "pm",
                   !.hour = IF @ > 12 THEN @ - 12 ELSE @]

\* _extract_reset_time: the first pattern that matches anywhere in the text,
\* at its first match.
extract_reset_time(text) ==
    LET hits(k) == {i \in 1 .. Len(text) : reset_time_patterns(k, text[i])}
        ks == {k \in 1 .. 6 : hits(k) # {}}
    IN  IF ks = {} THEN NoWritten
        ELSE LET k == CHOOSE x \in ks : \A y \in ks : x <= y
                 i == CHOOSE x \in hits(k) : \A y \in hits(k) : x <= y
             IN  FormatMatch(Lower(text[i].tok))

\* RateLimitParser.parse_output
parse_output(text) ==
    LET detected == \E i \in 1 .. Len(text) : rate_limit_patterns(text[i])
    IN  [rate_limit_detected |-> detected,
         reset_time |-> IF detected THEN extract_reset_time(text)
                        ELSE NoWritten]

\* A parser and a text sample of one to MaxTextLines lines.
InitParser ==
    /\ pc = "parse"
    /\ session_result = None
    /\ sessions = 0
    /\ config \in [connection_mode : {"auto_detect"},
                   inactivity_timeout : {30},
                   start_time : {ConfigStartMinutes},
                   max_tasks_per_session : TaskLimits]
    /\ tasks = [i \in TaskIds |-> [status |-> "pending", error |-> ""]]
    /\ task_index = 0
    /\ ex = [rate_limit_detected |-> FALSE, detected_reset_time |-> NoToken,
             current_task |-> NoTask]
    /\ mon = [is_active |-> FALSE, idle |-> 0]
    /\ sch = [session_start_time |-> NoTime, tasks_executed |-> 0,
              detected_reset_time |-> NoToken, rate_limit_detected |-> FALSE]
    /\ tm = [running |-> FALSE, existing |-> FALSE, selected |-> "none",
             window_active |-> FALSE, process_alive |-> FALSE]
    /\ output_queue \in UNION {[1 .. n -> SampleLines] : n \in 1 .. MaxTextLines}
    /\ now = 0
    /\ loc = [rate_limit_detected |-> FALSE, reset_time |-> NoWritten]
    /\ wait = NoWait
    /\ hist = NoHist

\* parse_output(text) is called; its result is kept in loc.
Parse ==
    /\ pc = "parse"
    /\ pc' = "parsed"
    /\ loc' = parse_output(output_queue)
    /\ UNCHANGED <<session_result, sessions, config, tasks, task_index, ex,
                   mon, sch, tm, output_queue, now, wait, hist>>

NextParser ==
    \/ Parse

SpecParser == InitParser /\ [][NextParser]_vars

\* ------------------------------------------ parser and Scheduler together
\* A one-line notice "limit reached ... resets <token>" is parsed, the result
\* is handed to update_rate_limit_info and next_window_start is asked.
ClockHours == {0, 1, 9, 11, 12, 13, 14, 23, 24}
ClockMinutes == {0, 30, 59, 75}
ClockWritten ==
    {Written(h, FALSE, 0, FALSE, a) :
         h \in ClockHours, a \in {"am", "pm", "AM", "PM"}}
    \cup {Written(h, TRUE, m, g, a) :
         h \in ClockHours, m \in ClockMinutes, g \in BOOLEAN,
         a \in {"am", "pm", "AM", "PM"}}
    \cup {Written(h, TRUE, m, FALSE, "") :
         h \in ClockHours, m \in ClockMinutes}
ClockTimes == {0, 600, MinutesPerDay - 1}

\* next_window_start reading the stored string: lower().strip(), the marker
\* looked for and taken out, the rest split at ":" (minutes 0 without one).
ParseTimeStr(w) ==
    IF w = NoWritten THEN NoToken
    ELSE [hour |-> w.hour, minute |-> IF w.colon THEN w.minute ELSE 0,
          ampm |-> Lower(w).ampm]

InitClock ==
    /\ pc = "clock"
    /\ session_result = None
    /\ sessions = 0
    /\ config \in [connection_mode : {"auto_detect"},
                   inactivity_timeout : {30},
                   start_time : {ConfigStartMinutes},
                   max_tasks_per_session : TaskLimits]
    /\ tasks = [i \in TaskIds |-> [status |-> "pending", error |-> ""]]
    /\ task_index = 0
    /\ ex = [rate_limit_detected |-> FALSE, detected_reset_time |-> NoToken,
             current_task |-> NoTask]
    /\ mon = [is_active |-> FALSE, idle |-> 0]
    /\ sch = [session_start_time |-> NoTime, tasks_executed |-> 0,
              detected_reset_time |-> NoToken, rate_limit_detected |-> FALSE]
    /\ tm = [running |-> FALSE, existing |-> FALSE, selected |-> "none",
             window_active |-> FALSE, process_alive |-> FALSE]
    /\ \E w \in ClockWritten :
          output_queue = <<TextLine("limit reached", FALSE, "resets", w)>>
    /\ now \in ClockTimes
    /\ loc = [rate_limit_detected |-> FALSE, reset_time |-> NoWritten]
    /\ wait = NoWait
    /\ hist = NoHist

\* parse_output(text) is called; its result is kept in loc.
ClockParse ==
    /\ pc = "clock"
    /\ pc' = "clock_parsed"
    /\ loc' = parse_output(output_queue)
    /\ UNCHANGED <<session_result, sessions, config, tasks, task_index, ex,
                   mon, sch, tm, output_queue, now, wait, hist>>

\* update_rate_limit_info with the parser's result, then next_window_start.
ClockSchedule ==
    /\ pc = "clock_parsed"
    /\ pc' = "clock_done"
    /\ sch' = UpdateRateLimitInfo(sch, loc.rate_limit_detected,
                                  ParseTimeStr(loc.reset_time))
    /\ wait' = [target |-> NextWindowStart(sch', now), mode |-> "reset",
                ret |-> None]
    /\ UNCHANGED <<session_result, sessions, config, tasks, task_index, ex,
                   mon, tm, output_queue, now, loc, hist>>

NextClock ==
    \/ ClockParse
    \/ ClockSchedule

SpecClock == InitClock /\ [][NextClock]_vars

\* ------------------------------------------- InactivityMonitor on its own
\* What a caller of the monitor knows, kept in loc: whether update_activity
\* has been called since construction or the last reset, the seconds gone by
\* since the later of the two, and the resets so far. Beside it a second
\* monitor, once, that is given the same calls except that where reset() is
\* called twice in a row it is called on once a single time.
NewMonitor == [armed |-> FALSE, elapsed |-> 0, resets |-> 0,
               once |-> [is_active |-> FALSE, idle |-> 0], twice |-> FALSE]

\* InactivityMonitor(timeout_seconds) just constructed.
InitMonitor ==
    /\ pc = "mon"
    /\ session_result = None
    /\ sessions = 0
    /\ config \in [connection_mode : {"auto_detect"},
                   inactivity_timeout : InactivityTimeouts,
                   start_time : {ConfigStartMinutes},
                   max_tasks_per_session : TaskLimits]
    /\ tasks = [i \in TaskIds |-> [status |-> "pending", error |-> ""]]
    /\ task_index = 0
    /\ ex = [rate_limit_detected |-> FALSE, detected_reset_time |-> NoToken,
             current_task |-> NoTask]
    /\ mon = [is_active |-> FALSE, idle |-> 0]
    /\ sch = [session_start_time |-> NoTime, tasks_executed |-> 0,
              detected_reset_time |-> NoToken, rate_limit_detected |-> FALSE]
    /\ tm = [running |-> FALSE, existing |-> FALSE, selected |-> "none",
             window_active |-> FALSE, process_alive |-> FALSE]
    /\ output_queue = <<>>
    /\ now = 0
    /\ loc = NewMonitor
    /\ wait = NoWait
    /\ hist = NoHist

\* update_activity()
MonUpdate ==
    /\ pc \in {"mon", "mon_asked"}
    /\ pc' = "mon"
    /\ mon' = UpdateActivity(mon)
    /\ loc' = [loc EXCEPT !.armed = TRUE, !.elapsed = 0,
                          !.once = UpdateActivity(@)]
    /\ UNCHANGED <<session_result, sessions, config, tasks, task_index, ex,
                   sch, tm, output_queue, now, wait, hist>>

\* reset()
MonReset ==
    /\ pc \in {"mon", "mon_asked"}
    /\ pc' = "mon"
    /\ mon' = MonitorReset(mon)
    /\ loc' = [loc EXCEPT !.armed = FALSE, !.elapsed = 0,
                          !.resets = Min(@ + 1, MaxResets),
                          !.once = MonitorReset(@)]
    /\ UNCHANGED <<session_result, sessions, config, tasks, task_index, ex,
                   sch, tm, output_queue, now, wait, hist>>

\* reset(); reset(), with some seconds or none between the two calls.
MonResetTwice ==
    /\ pc \in {"mon", "mon_asked"}
    /\ pc' = "mon"
    /\ \E d \in {0, SecondsPerTick} :
          /\ mon' = MonitorReset(MonitorAge(MonitorReset(mon), d))
          /\ loc' = [loc EXCEPT !.armed = FALSE, !.elapsed = 0,
                                !.resets = Min(@ + 2, MaxResets),
                                !.once = MonitorAge(MonitorReset(@), d),
                                !.twice = TRUE]
    /\ UNCHANGED <<session_result, sessions, config, tasks, task_index, ex,
                   sch, tm, output_queue, now, wait, hist>>

\* Seconds go by between two calls.
MonTick ==
    /\ pc \in {"mon", "mon_asked"}
    /\ loc.elapsed < MaxMonitorTicks * SecondsPerTick
    /\ pc' = "mon"
    /\ mon' = MonitorAge(mon, SecondsPerTick)
    /\ loc' = [loc EXCEPT !.elapsed = @ + SecondsPerTick,
                          !.once = MonitorAge(@, SecondsPerTick)]
    /\ UNCHANGED <<session_result, sessions, config, tasks, task_index, ex,
                   sch, tm, output_queue, now, wait, hist>>

\* is_inactive(): its return value is kept in session_result.
MonAsk ==
    /\ pc \in {"mon", "mon_asked"}
    /\ pc' = "mon_asked"
    /\ session_result' = IF IsInactive(mon) THEN "True" ELSE "False"
    /\ UNCHANGED <<sessions, config, tasks, task_index, ex, mon, sch, tm,
                   output_queue, now, loc, wait, hist>>

NextMonitor ==
    \/ MonUpdate
    \/ MonReset
    \/ MonResetTwice
    \/ MonTick
    \/ MonAsk

SpecMonitor == InitMonitor /\ [][NextMonitor]_vars

\* ------------------------------------------ the session limit on its own
\* The Scheduler with a session that has or has not started, the clock, the
\* executions recorded so far, and is_within_session_limit() asked at any
\* moment.  session_result keeps what the call returned.
LimitTimes == {0, 120, 300, 301, 419, 420, 421, 600}
LimitStarts == {NoTime, 0, 120}
LimitTaskLimits == {1, 2}

InitLimit ==
    /\ pc = "limit"
    /\ session_result = None
    /\ sessions = 0
    /\ config \in [connection_mode : {"auto_detect"},
                   inactivity_timeout : {30},
                   start_time : {ConfigStartMinutes},
                   max_tasks_per_session : LimitTaskLimits]
    /\ tasks = [i \in TaskIds |-> [status |-> "pending", error |-> ""]]
    /\ task_index = 0
    /\ ex = [rate_limit_detected |-> FALSE, detected_reset_time |-> NoToken,
             current_task |-> NoTask]
    /\ mon = [is_active |-> FALSE, idle |-> 0]
    /\ \E start \in LimitStarts :
          sch = [session_start_time |-> start, tasks_executed |-> 0,
                 detected_reset_time |-> NoToken,
                 rate_limit_detected |-> FALSE]
    /\ tm = [running |-> FALSE, existing |-> FALSE, selected |-> "none",
             window_active |-> FALSE, process_alive |-> FALSE]
    /\ output_queue = <<>>
    /\ now \in {t \in LimitTimes : t >= sch.session_start_time}
    /\ loc = NoLoc
    /\ wait = NoWait
    /\ hist = NoHist

\* record_task_execution().
LimitRecord ==
    /\ pc = "limit"
    /\ sch.tasks_executed < MaxExecuted
    /\ sch' = RecordTaskExecution(sch)
    /\ UNCHANGED <<pc, session_result, sessions, config, tasks, task_index,
                   ex, mon, tm, output_queue, now, loc, wait, hist>>

\* Time passes.
LimitTick ==
    /\ pc = "limit"
    /\ \E t \in LimitTimes : t > now /\ now' = t
    /\ UNCHANGED <<pc, session_result, sessions, config, tasks, task_index,
                   ex, mon, sch, tm, output_queue, loc, wait, hist>>

\* is_within_session_limit() is called.
LimitAsk ==
    /\ pc = "limit"
    /\ pc' = "limit_asked"
    /\ session_result' = IF IsWithinSessionLimit(sch, now) THEN "True"
                         ELSE "False"
    /\ UNCHANGED <<sessions, config, tasks, task_index, ex, mon, sch, tm,
                   output_queue, now, loc, wait, hist>>

NextLimit ==
    \/ LimitRecord
    \/ LimitTick
    \/ LimitAsk

SpecLimit == InitLimit /\ [][NextLimit]_vars

\* ------------------------------------- InactivityMonitor and two threads
\* One thread calls update_activity(), another is_inactive() and reset(),
\* each call a sequence of steps: the lock is taken, the fields are read or
\* written one at a time, the lock is given back.  loc keeps where each
\* thread stands, who holds the lock, the value is_inactive() has computed,
\* the seconds since update_activity() last completed (NoTime when none has
\* since the last completed reset()) and the call the poller made last.
\* A call takes no time that counts against the timeout: the clock moves on
\* between calls.
NewThreads == [reader |-> "idle", poller |-> "idle", lock |-> "free",
               verdict |-> FALSE, since_update |-> NoTime, last |-> None]

\* (variant: `with self._lock` taken out of the three methods)
LockAcquire_Unlocked(lock, who) == {lock}

\* `with self._lock`: entered by `who` when the lock is free, never
\* otherwise; the value is the lock afterwards.
LockAcquire(lock, who) == IF lock = "free" THEN {who} ELSE {}

\* Leaving `with self._lock`.
LockRelease(lock, who) == IF lock = who THEN "free" ELSE lock

InitThreads ==
    /\ pc = "threads"
    /\ session_result = None
    /\ sessions = 0
    /\ config \in [connection_mode : {"auto_detect"},
                   inactivity_timeout : InactivityTimeouts,
                   start_time : {ConfigStartMinutes},
                   max_tasks_per_session : TaskLimits]
    /\ tasks = [i \in TaskIds |-> [status |-> "pending", error |-> ""]]
    /\ task_index = 0
    /\ ex = [rate_limit_detected |-> FALSE, detected_reset_time |-> NoToken,
             current_task |-> NoTask]
    /\ mon = [is_active |-> FALSE, idle |-> 0]
    /\ sch = [session_start_time |-> NoTime, tasks_executed |-> 0,
              detected_reset_time |-> NoToken, rate_limit_detected |-> FALSE]
    /\ tm = [running |-> FALSE, existing |-> FALSE, selected |-> "none",
             window_active |-> FALSE, process_alive |-> FALSE]
    /\ output_queue = <<>>
    /\ now = 0
    /\ loc = NewThreads
    /\ wait = NoWait
    /\ hist = NoHist

\* update_activity(): with self._lock
ReaderAcquire ==
    /\ pc = "threads" /\ loc.reader = "idle"
    /\ \E l \in LockAcquire(loc.lock, "reader") :
          loc' = [loc EXCEPT !.lock = l, !.reader = "stamp"]
    /\ UNCHANGED mon
    /\ UNCHANGED <<pc, session_result, sessions, config, tasks, task_index,
                   ex, sch, tm, output_queue, now, wait, hist>>

\* update_activity(): self.last_activity = time.time()
ReaderStamp ==
    /\ pc = "threads" /\ loc.reader = "stamp"
    /\ mon' = [mon EXCEPT !.idle = 0]
    /\ loc' = [loc EXCEPT !.reader = "flag"]
    /\ UNCHANGED <<pc, session_result, sessions, config, tasks, task_index,
                   ex, sch, tm, output_queue, now, wait, hist>>

\* update_activity(): self.is_active = True
ReaderFlag ==
    /\ pc = "threads" /\ loc.reader = "flag"
    /\ mon' = [mon EXCEPT !.is_active = TRUE]
    /\ loc' = [loc EXCEPT !.reader = "release"]
    /\ UNCHANGED <<pc, session_result, sessions, config, tasks, task_index,
                   ex, sch, tm, output_queue, now, wait, hist>>

\* update_activity(): the with block is left and the call returns.
ReaderRelease ==
    /\ pc = "threads" /\ loc.reader = "release"
    /\ loc' = [loc EXCEPT !.lock = LockRelease(@, "reader"),
                          !.reader = "idle", !.since_update = 0]
    /\ UNCHANGED mon
    /\ UNCHANGED <<pc, session_result, sessions, config, tasks, task_index,
                   ex, sch, tm, output_queue, now, wait, hist>>

\* is_inactive() or reset(): with self._lock
PollerAcquire ==
    /\ pc = "threads" /\ loc.poller = "idle"
    /\ \E l \in LockAcquire(loc.lock, "poller"), op \in {"ask", "reset"} :
          loc' = [loc EXCEPT !.lock = l, !.last = op,
                     !.poller = IF op = "ask" THEN "read_flag"
                                ELSE "reset_stamp"]
    /\ UNCHANGED mon
    /\ UNCHANGED <<pc, session_result, sessions, config, tasks, task_index,
                   ex, sch, tm, output_queue, now, wait, hist>>

\* is_inactive(): if not self.is_active: return False
PollerReadFlag ==
    /\ pc = "threads" /\ loc.poller = "read_flag"
    /\ loc' = IF mon.is_active THEN [loc EXCEPT !.poller = "compare"]
              ELSE [loc EXCEPT !.poller = "return", !.verdict = FALSE]
    /\ UNCHANGED mon
    /\ UNCHANGED <<pc, session_result, sessions, config, tasks, task_index,
                   ex, sch, tm, output_queue, now, wait, hist>>

\* is_inactive(): (time.time() - self.last_activity) >= self.timeout_seconds
PollerCompare ==
    /\ pc = "threads" /\ loc.poller = "compare"
    /\ loc' = [loc EXCEPT !.poller = "return",
                          !.verdict = (mon.idle >= config.inactivity_timeout)]
    /\ UNCHANGED mon
    /\ UNCHANGED <<pc, session_result, sessions, config, tasks, task_index,
                   ex, sch, tm, output_queue, now, wait, hist>>

\* is_inactive(): the with block is left and the value is returned.
PollerReturn ==
    /\ pc = "threads" /\ loc.poller = "return"
    /\ session_result' = IF loc.verdict THEN "True" ELSE "False"
    /\ loc' = [loc EXCEPT !.lock = LockRelease(@, "poller"),
                          !.poller = "idle"]
    /\ UNCHANGED <<pc, sessions, config, tasks, task_index, ex, mon, sch, tm,
                   output_queue, now, wait, hist>>

\* reset(): self.last_activity = time.time()
PollerResetStamp ==
    /\ pc = "threads" /\ loc.poller = "reset_stamp"
    /\ mon' = [mon EXCEPT !.idle = 0]
    /\ loc' = [loc EXCEPT !.poller = "reset_flag"]
    /\ UNCHANGED <<pc, session_result, sessions, config, tasks, task_index,
                   ex, sch, tm, output_queue, now, wait, hist>>

\* reset(): self.is_active = False
PollerResetFlag ==
    /\ pc = "threads" /\ loc.poller = "reset_flag"
    /\ mon' = [mon EXCEPT !.is_active = FALSE]
    /\ loc' = [loc EXCEPT !.poller = "reset_release"]
    /\ UNCHANGED <<pc, session_result, sessions, config, tasks, task_index,
                   ex, sch, tm, output_queue, now, wait, hist>>

\* reset(): the with block is left and the call returns.
PollerResetRelease ==
    /\ pc = "threads" /\ loc.poller = "reset_release"
    /\ loc' = [loc EXCEPT !.lock = LockRelease(@, "poller"),
                          !.poller = "idle", !.since_update = NoTime]
    /\ UNCHANGED mon
    /\ UNCHANGED <<pc, session_result, sessions, config, tasks, task_index,
                   ex, sch, tm, output_queue, now, wait, hist>>

\* Seconds go by while no call is under way.
ThreadsTick ==
    /\ pc = "threads" /\ loc.reader = "idle" /\ loc.poller = "idle"
    /\ mon' = MonitorAge(mon, SecondsPerTick)
    /\ loc' = [loc EXCEPT !.since_update =
                  IF @ = NoTime THEN NoTime
                  ELSE Min(@ + SecondsPerTick, config.inactivity_timeout)]
    /\ UNCHANGED <<pc, session_result, sessions, config, tasks, task_index,
                   ex, sch, tm, output_queue, now, wait, hist>>

NextThreads ==
    \/ ReaderAcquire
    \/ ReaderStamp
    \/ ReaderFlag
    \/ ReaderRelease
    \/ PollerAcquire
    \/ PollerReadFlag
    \/ PollerCompare
    \/ PollerReturn
    \/ PollerResetStamp
    \/ PollerResetFlag
    \/ PollerResetRelease
    \/ ThreadsTick

SpecThreads == InitThreads /\ [][NextThreads]_vars

\* ---------------------------------------------- a session left to finish
\* Would a limit found now, with this token, be waited out within the days
\* the clock is followed for.
HorizonOK(s, tok) ==
    NextWindowStart(UpdateRateLimitInfo(s, TRUE, tok), now) \div MinutesPerDay
        <= MaxDay

\* Rate limits are found only so often: no wait, no verdict about to be
\* handled and no notice waiting in the queue of a live channel asks for a
\* wait beyond those days.
Horizon ==
    /\ pc = "wait" => wait.target \div MinutesPerDay <= MaxDay
    /\ (pc = "handle" /\ ex.rate_limit_detected) =>
          HorizonOK(sch, ex.detected_reset_time)
    /\ \A i \in 1 .. Len(output_queue) :
          (IsRunning(tm) /\ MatchesRateLimit(output_queue[i])) =>
              HorizonOK(sch, ExtractResetTime(output_queue[i]))

\* The steps of the control thread when a channel can be had whenever one is
\* asked for and nobody interrupts.
LiveStep ==
    /\ \/ StartSession
       \/ PreFlight
       \/ WaitSleep
       \/ WaitReturn
       \/ Validate
       \/ SessionComplete
       \/ BeginTask
       \/ ExecTick
       \/ HandleResult
       \/ InterTaskCheck
    /\ session_result' # "False"
    /\ Horizon'

\* What goes on around it: a window found missing, output arriving, the
\* channel dying.
EnvStep ==
    /\ \/ WindowNotReady
       \/ ReadOutput
       \/ ChannelDies
    /\ Horizon'

NextLive ==
    \/ LiveStep
    \/ EnvStep

\* The single control thread keeps running: its next step is taken.
SpecLive == Init /\ [][NextLive]_vars /\ WF_vars(LiveStep)

TypeOK ==
    /\ pc \in {"idle", "preflight", "wait", "validate", "loop", "exec",
               "handle", "delay", "done", "stopped", "sched", "sched_done",
               "mon", "mon_asked", "parse", "parsed", "limit",
               "limit_asked", "clock", "clock_parsed", "clock_done",
               "threads"}
    /\ task_index \in 0 .. NumTasks
    /\ \A i \in TaskIds : tasks[i].status \in
          {"pending", "running", "completed", "failed", "timeout",
           "rate_limited"}
    /\ Len(output_queue) <= MaxQueue
    /\ now \in 0 .. ((MaxDay + 2) * MinutesPerDay)


\* ------------------------------------------------------------ properties
\* The step in which run_session acts on the task execute_task returned.
\* (A state-level helper: the status the task came back with.)
Returned == tasks[task_index].status

C2_RetriesThenOneRecord ==
    [][/\ (pc = "handle" /\ pc' # "done" /\ Returned = "completed") =>
             /\ hist.at = task_index
             /\ hist.sends = hist.rls + 1
             /\ hist.saves[task_index] = 0
             /\ hist'.saves[task_index] = 1
             /\ sch'.tasks_executed = sch.tasks_executed + 1
       /\ (pc' = "exec" \/ (pc = "exec" /\ pc' = "handle")) =>
             sch'.tasks_executed = sch.tasks_executed
       /\ (pc = "handle" /\ pc' # "done" /\ Returned = "rate_limited") =>
             /\ hist'.rls = hist.rls + 1
             /\ hist'.saves = hist.saves]_vars

\* Task 0 was RateLimited twice, then Completed: three sends, one save, and
\* tasks_executed at one.
C2_Witness ==
    /\ pc = "delay"
    /\ hist.at = 0 /\ hist.rls = 2 /\ hist.sends = 3
    /\ hist.saves[0] = 1
    /\ tasks[0].status = "completed"
    /\ sch.tasks_executed = 1

\* C3: in every reachable state, sessions ended by an interrupt and started
\* again by run_continuous included, at most one task has status Running.
C3_AtMostOneRunning ==
    Cardinality({i \in TaskIds : tasks[i].status = "running"}) <= 1

C5_CountOnlyOnAdvance ==
    [][sch'.tasks_executed > sch.tasks_executed =>
          /\ pc = "handle"
          /\ task_index' = task_index + 1
          /\ Returned # "rate_limited"
          /\ sch'.tasks_executed = sch.tasks_executed + 1]_vars

\* Task 0 completed and was counted; task 1 came back RateLimited and the
\* count is still one when the wait begins.
C5_Witness ==
    /\ pc = "wait" /\ wait.ret = "after_task"
    /\ task_index = 1
    /\ tasks[0].status = "completed"
    /\ tasks[1].status = "rate_limited"
    /\ hist.rls = 1
    /\ sch.tasks_executed = 1

C7_PreflightLimitWaits ==
    (pc = "loop" /\ hist.pre # None /\ MatchesRateLimit(hist.pre)) =>
        hist.prewait = "done"

\* C8: execute_task never returns Completed for an attempt whose final poll
\* had a rate-limit notice in the content the executor can sample, whatever
\* the configured inactivity timeout.
C8_NoCompletedOverNotice ==
    ~(pc = "handle" /\ Returned = "completed" /\ loc.notice_on_screen)

\* C9: on a poll of execute_task that finds the channel not running the task
\* becomes Failed with the channel-terminated error and the attempt ends on
\* that poll, whatever is pending in the output queue and whether or not
\* Claude had started.
C9_DeadChannelFails ==
    [][(/\ pc = "exec" /\ ~IsRunning(tm)
        /\ pc' # "done" /\ tm' = tm
        /\ Len(output_queue') <= Len(output_queue)) =>
          /\ pc' = "handle"
          /\ tasks'[task_index] = [status |-> "failed", error |-> "terminated"]
          /\ ex'.current_task = NoTask
          /\ ~ex'.rate_limit_detected
          /\ output_queue' = output_queue]_vars

\* The attempt ended Failed on a poll whose pending output held a limit
\* notice, which is still in the queue.
C9_Witness ==
    /\ pc = "handle"
    /\ tasks[task_index] = [status |-> "failed", error |-> "terminated"]
    /\ output_queue # <<>>
    /\ MatchesRateLimit(output_queue[1])

C11_SendFailureReturnsAtOnce ==
    [][/\ (pc = "loop" /\ pc' \in {"exec", "handle"}
           /\ ~(IF tm'.existing THEN tm'.selected = "win" /\ tm'.window_active
                ELSE tm'.process_alive)) =>
             pc' = "handle"
       /\ (pc = "loop" /\ pc' = "handle") =>
             /\ tasks'[task_index] = [status |-> "failed", error |-> "send"]
             /\ output_queue' = output_queue
             /\ mon' = mon
             /\ ~ex'.rate_limit_detected
             /\ ex'.detected_reset_time = ex.detected_reset_time
             /\ loc' = NoLoc
             /\ sch' = sch]_vars

\* Task 1 could not be sent to a process that had died under task 0; a line
\* the dead process had written is still in the queue, unread.
C11_Witness ==
    /\ pc = "handle"
    /\ task_index = 1
    /\ tasks[1] = [status |-> "failed", error |-> "send"]
    /\ tasks[0] = [status |-> "failed", error |-> "terminated"]
    /\ output_queue # <<>>
    /\ ~ex.rate_limit_detected

\* A poll of execute_task, as a step: the control thread is in the loop and
\* the step is neither a line arriving, nor the channel dying, nor the
\* session being interrupted.
PollStep ==
    /\ pc = "exec"
    /\ pc' \in {"exec", "handle"}
    /\ tm' = tm
    /\ Len(output_queue') <= Len(output_queue)

\* C12: every execute_task call terminates.  Each poll that does not end the
\* attempt moves its wall-clock time forward, and a poll made after more than
\* the one-hour cap ends the attempt: as Timeout with the maximum-execution-
\* time error when the channel is alive and neither a rate limit nor
\* inactivity is found, whether or not Claude ever started.  A Timeout is
\* never given before the cap.
C12_HardCapEndsAttempt ==
    [][PollStep =>
          /\ pc' = "exec" =>
                (loc'.elapsed > loc.elapsed /\ loc.elapsed <= MaxTaskSeconds)
          /\ loc.elapsed > MaxTaskSeconds =>
                /\ pc' = "handle"
                /\ tasks'[task_index].status \in
                      {"failed", "rate_limited", "completed", "timeout"}
                /\ (IsRunning(tm) /\ ~ex'.rate_limit_detected
                    /\ tasks'[task_index].status # "completed") =>
                      tasks'[task_index] =
                          [status |-> "timeout", error |-> "timeout"]
          /\ tasks'[task_index].status = "timeout" =>
                loc.elapsed > MaxTaskSeconds]_vars

\* An attempt in which Claude never started ended as Timeout.
C12_Witness ==
    /\ pc = "handle"
    /\ tasks[task_index] = [status |-> "timeout", error |-> "timeout"]
    /\ ~loc.claude_started
    /\ IsRunning(tm)

C14_OnlyExhaustionOrCancelEnds ==
    [][/\ (pc' = "done" /\ pc # "done" /\ session_result' = "True") =>
             /\ pc = "loop"
             /\ task_index = NumTasks
             /\ \A i \in TaskIds : tasks[i].status \in Terminal
       /\ (pc' = "done" /\ pc # "done" /\ session_result' = "False") =>
             \/ pc \in {"idle", "validate"}
             \/ /\ tasks' = tasks /\ task_index' = task_index
                /\ sch' = sch /\ ex' = ex /\ mon' = mon
       /\ (pc = "handle" /\ Returned \in Terminal /\ pc' # "done") =>
             /\ task_index' = task_index + 1
             /\ pc' = IF task_index + 1 < NumTasks THEN "delay" ELSE "loop"
       /\ (pc = "loop" /\ task_index = NumTasks /\ pc' # pc) =>
             pc' = "done"]_vars

\* The session returned True over a queue whose tasks came back Failed and
\* Timeout.
C14_Witness ==
    /\ pc = "done"
    /\ session_result = "True"
    /\ tasks[0].status = "failed"
    /\ tasks[1].status = "timeout"

\* C15: for a finite queue, when a channel can always be validated, the clock
\* advances and rate limits are found only finitely often, run_session
\* eventually returns True with the index at the length of the queue and
\* every task Completed, Failed or Timeout.
C15_SessionEventuallyReturnsTrue ==
    <>(/\ pc = "done"
       /\ session_result = "True"
       /\ task_index = NumTasks
       /\ \A i \in TaskIds : tasks[i].status \in Terminal)

\* The session returned True after a task had been RateLimited and waited
\* out, with both tasks Completed.
C15_Witness ==
    /\ pc = "done"
    /\ session_result = "True"
    /\ \A i \in TaskIds : tasks[i].status = "completed"
    /\ now >= MinutesPerDay

\* C16: when a session is interrupted while a task is inside execute_task,
\* that task has a terminal status once run_session has returned: no task is
\* Running after the session has ended.
C16_NoRunningAfterReturn ==
    pc = "done" => \A i \in TaskIds : tasks[i].status # "running"

\* C17: next_window_start() returns a time strictly greater than the current
\* time, for every minute of the day, every configured start time and every
\* recorded token (valid, or unparseable and falling back to the configured
\* start), also when the current time equals the target exactly; the same for
\* night_writer's next_window_start.
C17_WindowStrictlyAhead ==
    pc = "sched_done" => wait.target > now

\* Asked at 14:00 exactly with the token 2pm on record: tomorrow 14:00.
C17_Witness ==
    /\ pc = "sched_done"
    /\ wait.mode = "window"
    /\ sch.detected_reset_time = Tok2pm
    /\ now = 840
    /\ wait.target = 840 + MinutesPerDay

\* C18: Scheduler.next_window_start() returns the earliest occurrence of the
\* target time of day T after now (T from the recorded token when it reads as
\* a time, else the configured start): today at T when now is before T,
\* tomorrow at T otherwise, so never more than 24 hours ahead; with token 4am
\* at 02:00 it is today 04:00 and at 05:00 tomorrow 04:00.
C18_EarliestOccurrence ==
    (pc = "sched_done" /\ wait.mode = "window") =>
        LET tok == sch.detected_reset_time
            T == IF TokenMinutes(tok) >= 0 THEN TokenMinutes(tok)
                 ELSE config.start_time
            midnight == (now \div MinutesPerDay) * MinutesPerDay
        IN  /\ wait.target % MinutesPerDay = T
            /\ now % MinutesPerDay < T => wait.target = midnight + T
            /\ now % MinutesPerDay >= T =>
                   wait.target = midnight + MinutesPerDay + T
            /\ wait.target - now <= MinutesPerDay
            /\ \A u \in (now + 1) .. (wait.target - 1) : u % MinutesPerDay # T
            /\ (tok = Tok4am /\ now = 120) => wait.target = 240
            /\ (tok = Tok4am /\ now = 300) => wait.target = 240 + MinutesPerDay

\* Asked at 05:00 with the token 4am on record: tomorrow 04:00.
C18_Witness ==
    /\ pc = "sched_done"
    /\ wait.mode = "window"
    /\ sch.detected_reset_time = Tok4am
    /\ now = 300
    /\ wait.target = 240 + MinutesPerDay

\* C19: a monitor on which update_activity() has not been called since
\* construction or since the last reset() answers is_inactive() = false, for
\* any elapsed time and after any number of reset() and is_inactive() calls.
C19_UnarmedNeverInactive ==
    (pc = "mon_asked" /\ ~loc.armed) => session_result = "False"

\* Asked after a reset with no update_activity since, well past the threshold.
C19_Witness ==
    /\ pc = "mon_asked"
    /\ ~loc.armed
    /\ loc.resets >= 1
    /\ loc.elapsed > config.inactivity_timeout
    /\ session_result = "False"

\* C20: for an armed monitor is_inactive() is true exactly when the time since
\* the most recent update_activity() is at least the threshold (true at the
\* threshold, false one tick before it), and is_inactive() changes no monitor
\* state.
C20_InactiveIffThresholdReached ==
    [][pc' = "mon_asked" =>
          /\ mon' = mon
          /\ loc.armed =>
                (session_result' = "True" <=>
                     loc.elapsed >= config.inactivity_timeout)]_vars

\* Asked exactly at the threshold of 90 seconds: inactive.
C20_Witness ==
    /\ pc = "mon_asked"
    /\ loc.armed
    /\ config.inactivity_timeout = 90
    /\ loc.elapsed = 90
    /\ session_result = "True"

\* C21: reset() is idempotent as seen through is_inactive(): from any monitor
\* state, at every later time and after every later sequence of
\* update_activity() calls, is_inactive() answers the same after
\* reset(); reset() as after a single reset().
C21_ResetIdempotent ==
    pc = "mon_asked" => (session_result = "True" <=> IsInactive(loc.once))

\* Asked after reset(); reset(), a later update_activity() and the threshold
\* going by: inactive, as for the monitor reset once.
C21_Witness ==
    /\ pc = "mon_asked"
    /\ loc.twice
    /\ loc.armed
    /\ loc.elapsed >= config.inactivity_timeout
    /\ session_result = "True"

\* C22: reset() only disarms the monitor: it sets the armed flag to false and
\* leaves the last-activity timestamp unchanged (the time since the last
\* activity is the same just after the call as just before it).
C22_ResetKeepsTimestamp ==
    [][(pc \in {"mon", "mon_asked"} /\ mon.is_active /\ ~mon'.is_active) =>
          mon'.idle = mon.idle]_vars

\* C23: for every text that holds a "limit reached ... resets <token>" phrase
\* with <token> of the shape <1-12>(am|pm) or <H>:<MM>(am|pm), in any letter
\* case and with any lines of noise around it, parse_output returns
\* rate_limit_detected = true and reset_time equal to the token as written,
\* lower-cased.
C23_TokenAsWritten ==
    pc = "parsed" =>
        \A i \in 1 .. Len(output_queue) :
            LET line == output_queue[i]
                w == Lower(line.tok)
            IN  (/\ line.clause = "limit reached"
                 /\ line.lead = "resets"
                 /\ line.tok # NoWritten
                 /\ w.ampm \in {"am", "pm"} /\ ~w.gap
                 /\ \A j \in 1 .. Len(output_queue) :
                        j # i => output_queue[j].tok = NoWritten)
                => /\ loc.rate_limit_detected
                   /\ loc.reset_time = w

\* C24: a save_task_output that cannot write (it returns the empty path) does
\* not fail the session and does not change the control flow for the task:
\* record_task_execution is still called, the index still moves up by one,
\* and the session still ends by returning when the queue is exhausted; no
\* session has returned on account of a failed save.
C24_FailedSaveChangesNothing ==
    [][/\ (pc = "handle" /\ hist'.lost) =>
              /\ pc' = AfterAdvance(task_index + 1)
              /\ task_index' = task_index + 1
              /\ sch'.tasks_executed = sch.tasks_executed + 1
              /\ hist'.saves[task_index] = hist.saves[task_index] + 1
              /\ session_result' = session_result
       /\ (pc = "handle" /\ Returned = "completed" /\ ~ex.rate_limit_detected
             /\ pc' = "done") =>
              /\ ~hist'.lost
              /\ task_index' = task_index /\ sch' = sch
       /\ (pc = "loop" /\ hist.lost /\ pc' # pc) =>
              /\ task_index = NumTasks
              /\ pc' = "done"]_vars

\* The save of the last task has just failed: the queue is exhausted, both
\* tasks are Completed and recorded, and the session is about to return.
C24_Witness ==
    /\ pc = "loop"
    /\ hist.lost
    /\ task_index = NumTasks
    /\ sch.tasks_executed = NumTasks
    /\ \A i \in TaskIds : tasks[i].status = "completed"

\* C25: once a task has reached Completed its content is never sent to the
\* channel again, over any run of the system, sessions repeated by
\* run_continuous included.
C25_CompletedNeverResent ==
    [][(pc = "loop" /\ pc' = "exec") =>
          tasks[task_index].status # "completed"]_vars

C27_EarlyNoticeEndsAttempt ==
    [][/\ (/\ pc = "exec" /\ IsRunning(tm) /\ ~loc.claude_started
           /\ \E i \in 1 .. Len(output_queue) :
                 MatchesRateLimit(output_queue[i])
           /\ pc' # "done" /\ tm' = tm /\ output_queue' = <<>>) =>
              /\ pc' = "handle"
              /\ tasks'[task_index].status = "rate_limited"
              /\ ex'.rate_limit_detected
              /\ \E i \in 1 .. Len(output_queue) :
                    /\ MatchesRateLimit(output_queue[i])
                    /\ ex'.detected_reset_time =
                           ExtractResetTime(output_queue[i])
       /\ (/\ pc = "handle" /\ Returned = "rate_limited"
           /\ ex.rate_limit_detected /\ pc' # "done") =>
              /\ pc' = "wait"
              /\ sch' = UpdateRateLimitInfo(sch, TRUE, ex.detected_reset_time)
              /\ wait'.target = NextWindowStart(sch', now)
              /\ task_index' = task_index]_vars

\* The attempt was ended by a streamed notice before Claude had started, with
\* the token 2pm recorded by the executor.
C27_Witness ==
    /\ pc = "handle"
    /\ Returned = "rate_limited"
    /\ ~loc.claude_started
    /\ ~tm.existing
    /\ ex.rate_limit_detected
    /\ ex.detected_reset_time = Tok2pm

\* C28: whenever wait_until_window() or wait_until_reset() returns, on any
\* path, the Scheduler has session_start_time = the current time,
\* tasks_executed = 0, rate_limit_detected = false and no reset token on
\* record, and neither returns before now >= the computed target.
C28_WaitReturnsClean ==
    [][(pc = "wait" /\ pc' \notin {"wait", "done"}) =>
          /\ now >= wait.target
          /\ sch' = [session_start_time |-> now, tasks_executed |-> 0,
                     rate_limit_detected |-> FALSE,
                     detected_reset_time |-> NoToken]]_vars

\* C29: update_rate_limit_info(detected, token) records the latest detection:
\* afterwards the recorded flag equals detected and the next
\* next_window_start() uses exactly the given token; after
\* update_rate_limit_info(true, none) it falls back to the configured start
\* time, whatever token an earlier call recorded.
C29_LatestDetectionUsed ==
    (pc = "sched_done" /\ wait.mode = "window") =>
        /\ sch.rate_limit_detected = ex.rate_limit_detected
        /\ wait.target =
              NextWindowStart([sch EXCEPT !.detected_reset_time =
                                              ex.detected_reset_time], now)
        /\ ex.detected_reset_time = NoToken =>
              wait.target = next_window_start(config.start_time, now)

\* C30: while ensure_window_ready fails at the top of the run_session loop the
\* loop retries the same index: the index, tasks_executed and every task's
\* status are unchanged and no task content is sent, until validation
\* succeeds; content is sent only to a window that passed the validation.
C30_NotReadyRetriesSameIndex ==
    [][/\ (pc = "loop" /\ pc' = "loop") =>
              /\ task_index' = task_index
              /\ tasks' = tasks
              /\ sch' = sch
              /\ ex' = ex
              /\ hist'.sends = hist.sends
       /\ (pc = "loop" /\ pc' \in {"exec", "handle"}) =>
              /\ task_index' = task_index
              /\ tm'.existing => (tm'.selected = "win" /\ tm'.window_active)]_vars

\* The validation has failed at the top of the loop for the second task: no
\* window is selected, the index is still 1 and the task still Pending.
C30_Witness ==
    /\ pc = "loop"
    /\ tm.existing
    /\ tm.selected = "none"
    /\ task_index = 1
    /\ tasks[0].status = "timeout"
    /\ tasks[1].status = "pending"
    /\ hist.at = 0 /\ hist.sends = 1

\* C31 as stated: from the sample of the inter-task delay to the end of the
\* wait it causes, neither the queue index nor tasks_executed changes.
C31_InterTaskCheckKeepsCount ==
    [][((pc = "delay" \/ (pc = "wait" /\ wait.ret = "after_delay"))
          /\ pc' # "done") =>
          /\ task_index' = task_index
          /\ sch'.tasks_executed = sch.tasks_executed]_vars

\* C31, amended: a sample of the inter-task delay that reports a rate limit is
\* recorded in the Scheduler and wait_until_reset is completed before the
\* upcoming task's content is sent; the check leaves the queue index, every
\* task and tasks_executed as they were and an empty sample triggers no wait;
\* the wait itself, like every wait, sets tasks_executed back to 0 when it
\* returns.
C31_InterTaskLimitWaitsFirst ==
    [][/\ (pc = "delay" /\ pc' # "done") =>
              /\ task_index' = task_index
              /\ tasks' = tasks
              /\ sch'.tasks_executed = sch.tasks_executed
              /\ pc' \in {"wait", "loop"}
              /\ pc' = "loop" => sch' = sch
              /\ pc' = "wait" =>
                    /\ loc'.notice_on_screen
                    /\ sch'.rate_limit_detected
                    /\ wait' = WaitUntilReset(sch', now, "after_delay")
       /\ (pc = "wait" /\ wait.ret = "after_delay" /\ pc' # "done") =>
              /\ task_index' = task_index
              /\ tasks' = tasks
              /\ hist'.sends = hist.sends
              /\ pc' \in {"wait", "loop"}
              /\ pc' = "wait" => sch' = sch
              /\ pc' = "loop" =>
                    /\ now >= wait.target
                    /\ sch'.tasks_executed = 0
                    /\ sch'.session_start_time = now]_vars

\* The wait caused by a notice sampled after the first task completed is
\* over: the second task is about to be sent, still Pending, and the count of
\* executed tasks is back at 0.
C31_Witness ==
    /\ pc = "loop"
    /\ task_index = 1
    /\ tasks[0].status = "completed"
    /\ tasks[1].status = "pending"
    /\ hist.saves[0] = 1
    /\ sch.tasks_executed = 0
    /\ sch.session_start_time >= MinutesPerDay

\* C32: wherever captured text is parsed for a rate limit, only its recent
\* window counts: a wait begun by the pre-flight check or by the check
\* between tasks is begun over a text whose last five lines hold a notice
\* (or, before the tasks, over an empty capture), and a side check during
\* a task reports a limit only for a notice in the last five lines.
C32_OnlyRecentWindowParsed ==
    [][/\ (pc = "preflight" /\ pc' = "wait") =>
              (hist'.pre = "" \/ MatchesRateLimit(RecentLines(hist'.pre)))
       /\ (pc = "delay" /\ pc' = "wait") => loc'.notice_recent]_vars

\* C33: whenever execute_task has returned, by any path, the task has an
\* end_time that is not before its start_time, its status is Completed,
\* Failed, Timeout or RateLimited, and the executor's current_task is
\* cleared.
C33_ReturnedTaskIsClosed ==
    pc = "handle" =>
        /\ Returned \in {"completed", "failed", "timeout", "rate_limited"}
        /\ hist.end_time = "after_start"
        /\ ex.current_task = NoTask

\* C34: is_within_session_limit() returns false exactly when no session has
\* started, or more than the configured duration has passed since the
\* session started, or tasks_executed has reached max_tasks_per_session, and
\* true otherwise; the call leaves the Scheduler as it was.
C34_SessionLimitExact ==
    [][(pc = "limit" /\ pc' = "limit_asked") =>
          /\ sch' = sch
          /\ session_result' \in {"True", "False"}
          /\ (session_result' = "False") <=>
                \/ sch.session_start_time = NoTime
                \/ now - sch.session_start_time > SessionDurationHours * 60
                \/ sch.tasks_executed >= config.max_tasks_per_session]_vars

\* A call made exactly the configured duration after the start, one execution
\* short of the task limit, answers true.
C34_Witness ==
    /\ pc = "limit_asked"
    /\ session_result = "True"
    /\ sch.session_start_time = 120
    /\ now - sch.session_start_time = SessionDurationHours * 60
    /\ sch.tasks_executed = config.max_tasks_per_session - 1
    /\ sch.tasks_executed = 1

\* C35: a notice's time token is read by parser and Scheduler as the same
\* time of day.  With a marker, 12am is 00, 1..11am are 1..11, 12pm is 12 and
\* 1..11pm are 13..23, minutes kept; H:MM without a marker (H in 0..23) is
\* given am when H < 12 and pm otherwise, and the Scheduler's target is at
\* H:MM exactly.
C35_ClockAgreement ==
    LET w == output_queue[1].tok
        marker == Lower(w).ampm
        mm == IF w.colon THEN w.minute ELSE 0
        target == wait.target % MinutesPerDay
    IN  (pc = "clock_done" /\ mm \in 0 .. 59) =>
          /\ (marker = "am" /\ w.hour \in 1 .. 12) =>
                target = (IF w.hour = 12 THEN 0 ELSE w.hour) * 60 + mm
          /\ (marker = "pm" /\ w.hour \in 1 .. 12) =>
                target = (IF w.hour = 12 THEN 12 ELSE w.hour + 12) * 60 + mm
          /\ (marker = "" /\ w.hour \in 0 .. 23) =>
                /\ loc.reset_time.ampm = IF w.hour < 12 THEN "am" ELSE "pm"
                /\ target = w.hour * 60 + mm

\* "resets 14:30" has been parsed and scheduled: the target is at 14:30.
C35_Witness ==
    /\ pc = "clock_done"
    /\ output_queue[1].tok = Written(14, TRUE, 30, FALSE, "")
    /\ loc.reset_time = Written(2, TRUE, 30, TRUE, "pm")
    /\ wait.target % MinutesPerDay = 870

\* C36: once stop_automation has stopped the channel while run_session is
\* running, run_session sends no further task content to the channel (no
\* send of execute_task succeeds), whether the channel is an existing window
\* or a started process.
C36_NoSendAfterStop ==
    [][(/\ pc \in {"preflight", "wait", "validate", "loop", "exec",
                   "handle", "delay"}
        /\ ~tm.running) =>
          ~(pc = "loop" /\ pc' = "exec")]_vars

\* C37: lines that were in the output queue before an attempt sent its task
\* are not output of that attempt: the poll that takes them from the queue
\* neither ends the attempt as RateLimited nor counts them as the sign that
\* Claude has started.
C37_StaleLinesIgnored ==
    [][(pc = "exec" /\ hist.stale /\ IsRunning(tm) /\ ~hist'.stale) =>
          /\ tasks'[task_index].status # "rate_limited"
          /\ loc'.claude_started = loc.claude_started]_vars

\* C38: whenever run_session, started on a freshly loaded queue, evaluates
\* its loop condition, every task below the index is Completed, Failed or
\* Timeout, every task above the index is Pending and has never been started
\* (start_time is assigned together with the Running status), and the queue
\* has the positions it was loaded with.
C38_QueueShape ==
    pc = "loop" =>
        /\ DOMAIN tasks = TaskIds
        /\ \A i \in TaskIds :
              /\ i < task_index => tasks[i].status \in Terminal
              /\ i > task_index =>
                    /\ tasks[i] = [status |-> "pending", error |-> ""]
                    /\ hist.at < i

\* The loop condition is evaluated at the second position after the first
\* task failed, the second still untouched.
C38_Witness ==
    /\ pc = "loop"
    /\ task_index = 1
    /\ tasks[0].status = "timeout"
    /\ tasks[1].status = "pending"
    /\ hist.at = 0

\* C39: with update_activity() on one thread and is_inactive() / reset() on
\* another, under any interleaving of their steps, is_inactive() never
\* returns true when an update_activity() completed less than the timeout
\* ago with no reset() completed since; and while one call is inside its
\* locked block the other thread is inside none.
C39_AtomicOnPair ==
    [][/\ (loc.poller = "return" /\ loc'.poller = "idle"
           /\ session_result' = "True") =>
              (loc.since_update = NoTime
               \/ loc.since_update >= config.inactivity_timeout)
       /\ ~(loc'.reader \in {"stamp", "flag", "release"}
            /\ loc'.poller # "idle")]_vars

\* is_inactive() has returned False thirty seconds after an update_activity()
\* completed, under a longer timeout, while the reader thread stands before
\* its next update_activity().
C39_Witness ==
    /\ pc = "threads"
    /\ loc.poller = "idle" /\ loc.last = "ask"
    /\ session_result = "False"
    /\ mon.is_active
    /\ loc.since_update = SecondsPerTick
    /\ loc.since_update < config.inactivity_timeout

=============================================================================
